---- MODULE Spec2Model ----
(***************************************************************************)
(* Model of the virtual-monitor session controller                         *)
(* (src/src/VirtualMonitor.cpp): the UI thread's handlers (OnDetect,       *)
(* OnCalibrate, OnCalibrateThreadUpdate), the detection worker, the        *)
(* calibration worker, and the calibration file reader and writer.         *)
(***************************************************************************)
EXTENDS Integers, Sequences, FiniteSets, TLC

\* #define CALIBRATION_ROWS / CALIBRATION_COLS
CALIBRATION_ROWS == 2
CALIBRATION_COLS == 4

\* CALIBRATION_ROWS * CALIBRATION_COLS, the size of both coordinate arrays
NumCalibrationPoints == CALIBRATION_ROWS * CALIBRATION_COLS
Slots == 0 .. (NumCalibrationPoints - 1)

(***************************************************************************)
(* Coordinates.  Coord3D is (x, y, z) with x, y integers and z a float;    *)
(* Coord2D is (x, y) integers.  A float z is kept in thousandths (z = 1.5  *)
(* is 1500), non-negative and below 10^6, which is enough to tell a value  *)
(* of more than six significant digits from its six-digit rounding.        *)
(***************************************************************************)
Coord3D(px, py, pz) == [x |-> px, y |-> py, z |-> pz]
Coord2D(vx, vy) == [x |-> vx, y |-> vy]

\* new Coord3D() / new Coord2D(): the value-initialised coordinates
ZeroCoord3D == Coord3D(0, 0, 0)
ZeroCoord2D == Coord2D(0, 0)

(***************************************************************************)
(* Text of the calibration file: a sequence of one-character strings.      *)
(***************************************************************************)
DigitChars == <<"0", "1", "2", "3", "4", "5", "6", "7", "8", "9">>
DigitValues == [c \in {DigitChars[d] : d \in 1 .. 10} |->
                   (CHOOSE d \in 1 .. 10 : DigitChars[d] = c) - 1]
IsDigit(c) == c \in DOMAIN DigitValues
DigitValue(c) == DigitValues[c]
IsSpace(c) == c \in {" ", "\n", "\t"}

RECURSIVE NatToChars(_)
NatToChars(n) ==
    IF n < 10 THEN <<DigitChars[n + 1]>>
    ELSE NatToChars(n \div 10) \o <<DigitChars[(n % 10) + 1]>>

\* ostream << int
IntToChars(i) == IF i < 0 THEN <<"-">> \o NatToChars(0 - i) ELSE NatToChars(i)

RECURSIVE Pow10(_)
Pow10(k) == IF k <= 0 THEN 1 ELSE 10 * Pow10(k - 1)

RECURSIVE NumDigits(_)
NumDigits(n) == IF n < 10 THEN 1 ELSE 1 + NumDigits(n \div 10)

\* The default stream precision: six significant digits
StreamPrecision == 6

\* A float in thousandths rounded to the stream's significant digits
\* (to nearest; the inputs used hold no exact tie)
RoundToPrecision(zm) ==
    LET d == NumDigits(zm)
    IN  IF d <= StreamPrecision THEN zm
        ELSE LET unit == Pow10(d - StreamPrecision)
             IN  ((zm + (unit \div 2)) \div unit) * unit

\* The fraction digits of a value in thousandths, trailing zeros removed
FractionChars(f) ==
    IF f = 0 THEN <<>>
    ELSE IF f % 100 = 0 THEN <<".">> \o NatToChars(f \div 100)
    ELSE IF f % 10 = 0
         THEN <<".", DigitChars[(f \div 100) + 1]>> \o NatToChars((f \div 10) % 10)
    ELSE <<".", DigitChars[(f \div 100) + 1], DigitChars[((f \div 10) % 10) + 1],
           DigitChars[(f % 10) + 1]>>

\* ostream << float (the %g form at precision 6, for 0 <= z < 10^6)
FloatToChars(zm) ==
    LET r == RoundToPrecision(zm)
    IN  NatToChars(r \div 1000) \o FractionChars(r % 1000)

\* One line of writeCalibrationDataToFile
FormatRecord(p, v) ==
    IntToChars(p.x) \o <<" ">> \o IntToChars(p.y) \o <<" ">> \o FloatToChars(p.z)
        \o <<" ">> \o IntToChars(v.x) \o <<" ">> \o IntToChars(v.y) \o <<"\n">>

(***************************************************************************)
(* Formatted extraction (istream >> int, istream >> float) from position p *)
(* of text s.  Each yields [ok, val, pos]: whether a number was read, its  *)
(* value, and the position after it.                                       *)
(***************************************************************************)
RECURSIVE SkipSpace(_, _)
SkipSpace(s, p) ==
    IF p <= Len(s) /\ IsSpace(s[p]) THEN SkipSpace(s, p + 1) ELSE p

\* The digits from position p on: [val, pos, count]
RECURSIVE ReadDigits(_, _, _, _)
ReadDigits(s, p, acc, n) ==
    IF p <= Len(s) /\ IsDigit(s[p])
    THEN ReadDigits(s, p + 1, (10 * acc) + DigitValue(s[p]), n + 1)
    ELSE [val |-> acc, pos |-> p, count |-> n]

SignAt(s, p) == p <= Len(s) /\ s[p] \in {"-", "+"}

ExtractInt(s, p) ==
    LET q == SkipSpace(s, p)
        neg == q <= Len(s) /\ s[q] = "-"
        d == ReadDigits(s, IF SignAt(s, q) THEN q + 1 ELSE q, 0, 0)
    IN  [ok |-> d.count > 0,
         val |-> IF neg THEN 0 - d.val ELSE d.val,
         pos |-> d.pos]

\* The first three fraction digits as thousandths
Thousandths(f) ==
    IF f.count = 0 THEN 0
    ELSE IF f.count <= 3 THEN f.val * Pow10(3 - f.count)
    ELSE f.val \div Pow10(f.count - 3)

ExtractFloat(s, p) ==
    LET q == SkipSpace(s, p)
        neg == q <= Len(s) /\ s[q] = "-"
        i == ReadDigits(s, IF SignAt(s, q) THEN q + 1 ELSE q, 0, 0)
        dot == i.pos <= Len(s) /\ s[i.pos] = "."
        f == IF dot THEN ReadDigits(s, i.pos + 1, 0, 0)
             ELSE [val |-> 0, pos |-> i.pos, count |-> 0]
        zm == (i.val * 1000) + Thousandths(f)
    IN  [ok |-> i.count + f.count > 0,
         val |-> IF neg THEN 0 - zm ELSE zm,
         pos |-> f.pos]

(***************************************************************************)
(* readCalibrationDataFromFile: the loop                                   *)
(*   while (file >> physicalX >> physicalY >> physicalZ >> virtualX        *)
(*               >> virtualY) { store into slot calibrationIndex; ++ }     *)
(* from position p with calibrationIndex = idx.  A record is stored as     *)
(* soon as it is read.  The loop has no bound on calibrationIndex: a       *)
(* record read at an index past the arrays is counted in overrun.          *)
(***************************************************************************)
RECURSIVE ReadLoop(_, _, _, _, _, _)
ReadLoop(s, p, phys, virt, idx, over) ==
    LET a == ExtractInt(s, p)
        b == ExtractInt(s, a.pos)
        c == ExtractFloat(s, b.pos)
        d == ExtractInt(s, c.pos)
        e == ExtractInt(s, d.pos)
    IN  IF ~(a.ok /\ b.ok /\ c.ok /\ d.ok /\ e.ok)
        THEN [phys |-> phys, virt |-> virt, count |-> idx, overrun |-> over]
        ELSE IF idx \in Slots
        THEN ReadLoop(s, e.pos,
                      [phys EXCEPT ![idx] = Coord3D(a.val, b.val, c.val)],
                      [virt EXCEPT ![idx] = Coord2D(d.val, e.val)],
                      idx + 1, over)
        ELSE ReadLoop(s, e.pos, phys, virt, idx + 1, over + 1)

\* A calibration file: absent, or its text
NoFile == [exists |-> FALSE, text |-> <<>>]
FileOf(txt) == [exists |-> TRUE, text |-> txt]

\* readCalibrationDataFromFile(f) on the arrays (phys, virt):
\* [ret, phys, virt, count, overrun]
ReadCalibrationData(f, phys, virt) ==
    IF ~f.exists
    THEN [ret |-> -1, phys |-> phys, virt |-> virt, count |-> 0, overrun |-> 0]
    ELSE LET r == ReadLoop(f.text, 1, phys, virt, 0, 0)
         IN  [ret |-> 0, phys |-> r.phys, virt |-> r.virt,
              count |-> r.count, overrun |-> r.overrun]

\* The text writeCalibrationDataToFile has written after its first k lines
RECURSIVE WrittenLines(_, _, _)
WrittenLines(phys, virt, k) ==
    IF k = 0 THEN <<>>
    ELSE WrittenLines(phys, virt, k - 1) \o FormatRecord(phys[k - 1], virt[k - 1])

\* writeCalibrationDataToFile(phys, virt) when the file opens
WriteCalibrationData(phys, virt) ==
    FileOf(WrittenLines(phys, virt, NumCalibrationPoints))

(***************************************************************************)
(* Bounds of the model                                                     *)
(***************************************************************************)
\* Calibration workers that can be alive at once
MaxCalibrationThreads == 2
\* Taps the user completes over a run
MaxTaps == 8
\* Update events that may be pending at once
MaxPendingEvents == 2
\* Taps a calibration worker completes while an update event of an earlier
\* tap is still pending
MaxEarlyTaps == 1
\* Records a calibration file may hold beyond NumCalibrationPoints
MaxExtraRecords == 1
\* The first taps of a run, whose release the detector may report as NULL
MaxNullTaps == 1

CalibrationThreads == 1 .. MaxCalibrationThreads

\* The scripted sensor: every sample of the t-th tap of a run, from the
\* press to the no-contact sample that ends it, is at the t-th point
TapPoint(t) == Coord3D(t, t + 1, 1500 * t)

(***************************************************************************)
(* Collaborators whose code is outside VirtualMonitor.cpp                  *)
(***************************************************************************)
\* CalibrationFrame: the virtual coordinate of target i, row-major
VirtualPointOfTarget(i) == Coord2D(i % CALIBRATION_COLS, i \div CALIBRATION_COLS)

\* No calibration frame shown.  handled and closes note, for the session
\* of the frame, the indices of the update events the UI thread has handled
\* and the calls of stopCalibration
NoCalibrationFrame ==
    [open |-> FALSE, current |-> 0, handled |-> <<>>, closes |-> 0]

\* new CalibrationFrame(rows, cols): shows target 0
NewCalibrationFrame == [NoCalibrationFrame EXCEPT !.open = TRUE]
\* CalibrationFrame::displayNextCalibrationPoint
DisplayNextCalibrationPoint(f) == [f EXCEPT !.current = f.current + 1]
\* CalibrationFrame::getCurrentCalibrationPoint: the target now displayed
GetCurrentCalibrationPoint(f) == VirtualPointOfTarget(f.current)

\* Interaction *: NULL when the poll produced no sample, or a sample with
\* its presence flag and physical location
NullInteraction ==
    [null |-> TRUE, contact |-> FALSE, physicalLocation |-> ZeroCoord3D]

Interaction(c, p) == [null |-> FALSE, contact |-> c, physicalLocation |-> p]

\* The sample shows a contact
IsContact(s) == ~s.null /\ s.contact

\* InteractionDetector::detectInteraction: zero or one sample per poll
Samples(t) ==
    {NullInteraction} \cup {Interaction(c, TapPoint(t)) : c \in BOOLEAN}

\* handleInteraction returning true on every sample without a contact
HandleInteractionAnyRelease(interacting, s) ==
    [interacting |-> IsContact(s), complete |-> ~IsContact(s)]

\* InteractionHandler::handleInteraction on sample s with the handler
\* Pressing (interacting) or Idle: the next handler state and whether the
\* sample completed a tap (no-contact while Pressing)
HandleInteraction(interacting, s) ==
    [interacting |-> IsContact(s), complete |-> interacting /\ ~IsContact(s)]

\* The minimal movement, in sensor units, that makes a contact a Move
MovementThreshold == 2

Distance(p, q) ==
    LET abs(n) == IF n < 0 THEN -n ELSE n
    IN  abs(p.x - q.x) + abs(p.y - q.y)

\* The gesture state machine on sample s, for a handler h that is Pressing
\* (h.interacting) or Idle and remembers the location of its last event:
\* the event emitted, the next handler state and what handleInteraction
\* returns
GestureStep(h, s) ==
    LET event ==
            IF IsContact(s)
            THEN IF ~h.interacting THEN "Start"
                 ELSE IF Distance(h.location, s.physicalLocation)
                            > MovementThreshold
                      THEN "Move"
                      ELSE "None"
            ELSE IF h.interacting THEN "End" ELSE "None"
        r == HandleInteraction(h.interacting, s)
    IN  [event |-> event,
         location |-> IF event \in {"Start", "Move"}
                      THEN s.physicalLocation ELSE h.location,
         interacting |-> r.interacting,
         complete |-> r.complete]

VARIABLES
    state,                      \* VirtualMonitorFrame::state
    uiPc,                       \* the UI thread: idle, or blocked in join
    detectionShouldCancel,      \* the cancellation token
    detectionThread,            \* the detection worker
    calibrationThread,          \* the worker frame->calibrationThread names
    workers,                    \* the calibration workers
    pendingEvents,              \* posted CALIBRATE_THREAD_UPDATE events
    calibrationFrame,           \* frame->calibrationFrame
    calibrationPhysicalCoords,  \* frame->calibrationPhysicalCoords
    calibrationVirtualCoords,   \* frame->calibrationVirtualCoords
    file,                       \* calibration.vmcal
    tapsLeft,                   \* taps the user may still complete
    store,                      \* the last direct call of the reader/writer
    gesture                     \* a handler fed scripted samples, and its events

vars == <<state, uiPc, detectionShouldCancel, detectionThread,
          calibrationThread, workers, pendingEvents, calibrationFrame,
          calibrationPhysicalCoords, calibrationVirtualCoords, file,
          tapsLeft, store, gesture>>

grid == <<calibrationPhysicalCoords, calibrationVirtualCoords>>

\* The process runs: the frame is not destroyed and no thread has faulted
Running ==
    /\ uiPc # "destroyed"
    /\ \A w \in CalibrationThreads : workers[w].pc # "crashed"

\* A detection thread object that was never started
NoDetectionThread ==
    [pc |-> "none", loadRet |-> 0, opened |-> FALSE, stops |-> 0,
     pollsAfterCancel |-> 0]

\* A calibration worker slot not in use
NoWorker ==
    [pc |-> "none", calibrationIndex |-> 0, interacting |-> FALSE,
     line |-> 0, opened |-> FALSE, startFailed |-> FALSE, polled |-> FALSE,
     afterDetection |-> FALSE, nullReads |-> 0, earlyTaps |-> 0,
     taps |-> 0, slotLog |-> <<>>, posted |-> 0, saves |-> 0]

\* A handler just constructed: Idle, no sample fed
NoGesture ==
    [interacting |-> FALSE, location |-> ZeroCoord3D, events |-> <<>>,
     samples |-> 0, completions |-> 0, ret |-> FALSE, wasInteracting |-> FALSE,
     contact |-> FALSE]

NoStoreCall == [op |-> "none", ret |-> 0, count |-> 0, overrun |-> 0,
                phys |-> <<>>, virt |-> <<>>, afterWrite |-> FALSE]

\* The calibration file a previous run left behind
PreviousCalibration ==
    WriteCalibrationData([i \in Slots |-> Coord3D(7, 8, 9250)],
                         [i \in Slots |-> VirtualPointOfTarget(i)])

\* The fields after VirtualMonitorFrame::VirtualMonitorFrame
FrameConstructed ==
    /\ state = "Paused"
    /\ uiPc = "idle"
    /\ detectionShouldCancel = FALSE
    /\ detectionThread = NoDetectionThread
    /\ calibrationThread = 0
    /\ workers = [w \in CalibrationThreads |-> NoWorker]
    /\ pendingEvents = <<>>
    /\ calibrationFrame = NoCalibrationFrame
    /\ tapsLeft = MaxTaps
    /\ store = NoStoreCall
    /\ gesture = NoGesture

\* The arrays the constructor allocates: new Coord3D(), new Coord2D()
ArraysConstructed ==
    /\ calibrationPhysicalCoords = [i \in Slots |-> ZeroCoord3D]
    /\ calibrationVirtualCoords = [i \in Slots |-> ZeroCoord2D]

Init ==
    /\ FrameConstructed
    /\ ArraysConstructed
    /\ file \in {NoFile, PreviousCalibration}

(***************************************************************************)
(* The detection worker: VirtualMonitorFrame::detectionThreadFn            *)
(***************************************************************************)
\* detector->start() (after setCalibrationPoints / setScreenVirtual): on an
\* error the function returns, otherwise it enters the loop
DetectionStart ==
    /\ Running
    /\ detectionThread.pc = "start"
    /\ \E ok \in BOOLEAN :
        detectionThread' =
            IF ok THEN [detectionThread EXCEPT !.pc = "check", !.opened = TRUE]
            ELSE [detectionThread EXCEPT !.pc = "done"]
    /\ UNCHANGED <<state, uiPc, detectionShouldCancel, calibrationThread,
                   workers, pendingEvents, calibrationFrame, grid, file,
                   tapsLeft, store, gesture>>

\* while (!this->detectionShouldCancel)
DetectionCheckCancel ==
    /\ Running
    /\ detectionThread.pc = "check"
    /\ detectionThread' =
        [detectionThread EXCEPT
            !.pc = IF detectionShouldCancel THEN "stop" ELSE "poll"]
    /\ UNCHANGED <<state, uiPc, detectionShouldCancel, calibrationThread,
                   workers, pendingEvents, calibrationFrame, grid, file,
                   tapsLeft, store, gesture>>

\* One loop body: detectInteraction, handleInteraction, freeInteraction
DetectionPoll ==
    /\ Running
    /\ detectionThread.pc = "poll"
    /\ detectionThread' =
        [detectionThread EXCEPT
            !.pc = "check",
            !.pollsAfterCancel =
                IF detectionShouldCancel THEN @ + 1 ELSE @]
    /\ UNCHANGED <<state, uiPc, detectionShouldCancel, calibrationThread,
                   workers, pendingEvents, calibrationFrame, grid, file,
                   tapsLeft, store, gesture>>

\* detector->stop() after the loop, and the function returns
DetectionStop ==
    /\ Running
    /\ detectionThread.pc = "stop"
    /\ detectionThread' =
        [detectionThread EXCEPT
            !.pc = "done", !.opened = FALSE, !.stops = @ + 1]
    /\ UNCHANGED <<state, uiPc, detectionShouldCancel, calibrationThread,
                   workers, pendingEvents, calibrationFrame, grid, file,
                   tapsLeft, store, gesture>>

\* The detection worker is executing detectionThreadFn
DetectionAlive == detectionThread.pc \in {"start", "check", "poll", "stop"}

(***************************************************************************)
(* The calibration worker: VirtualMonitorCalibrationThread::Entry          *)
(***************************************************************************)
\* if (detector->start() < 0) { ...; return ExitCode(NULL); }
AfterDetectorStartNoReturn(wk, ok) ==
    [wk EXCEPT !.pc = "loop", !.opened = ok, !.startFailed = ~ok,
               !.afterDetection = FALSE]

AfterDetectorStart(wk, ok) ==
    IF ok THEN [wk EXCEPT !.pc = "loop", !.opened = TRUE,
                          !.afterDetection = FALSE]
    ELSE [wk EXCEPT !.pc = "exited", !.startFailed = TRUE,
                    !.afterDetection = FALSE]

CalibrationStart(w) ==
    /\ Running
    /\ workers[w].pc = "start"
    /\ \E ok \in BOOLEAN :
        workers' = [workers EXCEPT ![w] = AfterDetectorStart(@, ok)]
    /\ UNCHANGED <<state, uiPc, detectionShouldCancel, detectionThread,
                   calibrationThread, pendingEvents, calibrationFrame, grid,
                   file, tapsLeft, store, gesture>>

\* calibrationIndex++
NextCalibrationIndexSkipping(i) == i + 2

NextCalibrationIndex(i) == i + 1

\* calibrationEvent.SetInt(calibrationIndex), before calibrationIndex++
PostedIndexAfterIncrement(i) == i + 1

PostedIndex(i) == i

\* while (calibrationIndex < CALIBRATION_ROWS * CALIBRATION_COLS)
InCalibrationLoop(wk) ==
    wk.pc = "loop" /\ wk.calibrationIndex < NumCalibrationPoints

\* What frame->calibrationPhysicalCoords[i] receives from
\* interaction->physicalLocation when interaction is NULL and the read does
\* not fault
GarbagePoints == {Coord3D(-1, -1, 0)}

\* One loop body: detectInteraction(true), handleInteraction and, when the
\* tap is complete, the two stores into slot calibrationIndex, the posted
\* update event and calibrationIndex++.  When the completing sample is NULL
\* the read of interaction->physicalLocation either faults, and the process
\* ends, or yields a garbage point
CalibrationPoll(w) ==
    /\ Running
    /\ InCalibrationLoop(workers[w])
    /\ \E s \in Samples(MaxTaps - tapsLeft + 1) :
        LET wk == workers[w]
            h == HandleInteraction(wk.interacting, s)
            i == wk.calibrationIndex
        IN  IF h.complete
            THEN /\ tapsLeft > 0
                 /\ Len(pendingEvents) < MaxPendingEvents
                 /\ pendingEvents # <<>> => wk.earlyTaps < MaxEarlyTaps
                 /\ s.null => MaxTaps - tapsLeft < MaxNullTaps
                 /\ tapsLeft' = tapsLeft - 1
                 /\ \E faults \in BOOLEAN, g \in GarbagePoints :
                     IF s.null /\ faults
                     THEN /\ calibrationVirtualCoords' =
                                [calibrationVirtualCoords EXCEPT
                                    ![i] = GetCurrentCalibrationPoint(
                                                calibrationFrame)]
                          /\ workers' =
                                [workers EXCEPT
                                    ![w] = [@ EXCEPT !.pc = "crashed",
                                                     !.polled = TRUE,
                                                     !.nullReads = @ + 1]]
                          /\ UNCHANGED <<calibrationPhysicalCoords,
                                         pendingEvents>>
                     ELSE /\ (~s.null) => ~faults
                          /\ calibrationVirtualCoords' =
                                [calibrationVirtualCoords EXCEPT
                                    ![i] = GetCurrentCalibrationPoint(
                                                calibrationFrame)]
                          /\ calibrationPhysicalCoords' =
                                [calibrationPhysicalCoords EXCEPT
                                    ![i] = IF s.null THEN g
                                           ELSE s.physicalLocation]
                          /\ pendingEvents' =
                                Append(pendingEvents, PostedIndex(i))
                          /\ workers' =
                                [workers EXCEPT
                                    ![w] = [@ EXCEPT
                                        !.interacting = h.interacting,
                                        !.polled = TRUE,
                                        !.nullReads =
                                            IF s.null THEN @ + 1 ELSE @,
                                        !.earlyTaps =
                                            IF pendingEvents # <<>>
                                            THEN @ + 1 ELSE @,
                                        !.taps = @ + 1,
                                        !.slotLog = Append(@, i),
                                        !.posted = @ + 1,
                                        !.calibrationIndex =
                                            NextCalibrationIndex(i)]]
            ELSE /\ workers' =
                        [workers EXCEPT
                            ![w] = [@ EXCEPT !.interacting = h.interacting,
                                             !.polled = TRUE]]
                 /\ UNCHANGED <<tapsLeft, grid, pendingEvents>>
    /\ UNCHANGED <<state, uiPc, detectionShouldCancel, detectionThread,
                   calibrationThread, calibrationFrame, file, store,
                   gesture>>

\* The loop is left and writeCalibrationDataToFile opens the file
\* (std::ofstream truncates it), or fails to and returns -1
CalibrationOpenFile(w) ==
    /\ Running
    /\ workers[w].pc = "loop"
    /\ ~InCalibrationLoop(workers[w])
    /\ \E ok \in BOOLEAN :
        IF ok
        THEN /\ file' = FileOf(<<>>)
             /\ workers' = [workers EXCEPT ![w] =
                    [@ EXCEPT !.pc = "write", !.line = 0, !.saves = @ + 1]]
        ELSE /\ file' = file
             /\ workers' = [workers EXCEPT ![w] =
                    [@ EXCEPT !.pc = "stop", !.saves = @ + 1]]
    /\ UNCHANGED <<state, uiPc, detectionShouldCancel, detectionThread,
                   calibrationThread, pendingEvents, calibrationFrame, grid,
                   tapsLeft, store, gesture>>

\* One line of writeCalibrationDataToFile (std::endl flushes it); after the
\* last line the file is closed
CalibrationWriteLine(w) ==
    /\ Running
    /\ workers[w].pc = "write"
    /\ LET k == workers[w].line
       IN  /\ file' = FileOf(file.text \o
                        FormatRecord(calibrationPhysicalCoords[k],
                                     calibrationVirtualCoords[k]))
           /\ workers' = [workers EXCEPT ![w] =
                [@ EXCEPT !.line = k + 1,
                          !.pc = IF k + 1 < NumCalibrationPoints
                                 THEN "write" ELSE "stop"]]
    /\ UNCHANGED <<state, uiPc, detectionShouldCancel, detectionThread,
                   calibrationThread, pendingEvents, calibrationFrame, grid,
                   tapsLeft, store, gesture>>

\* detector->stop() and the worker exits
CalibrationStop(w) ==
    /\ Running
    /\ workers[w].pc = "stop"
    /\ workers' = [workers EXCEPT ![w] =
            [@ EXCEPT !.pc = "exited", !.opened = FALSE]]
    /\ UNCHANGED <<state, uiPc, detectionShouldCancel, detectionThread,
                   calibrationThread, pendingEvents, calibrationFrame, grid,
                   file, tapsLeft, store, gesture>>

\* Worker w is executing Entry
CalibrationAlive(w) == workers[w].pc \in {"start", "loop", "write", "stop"}

(***************************************************************************)
(* The UI thread: VirtualMonitorFrame's handlers.  A handler that calls    *)
(* stopDetection blocks in detectionThread.join(); it resumes, with no     *)
(* other handler in between, once the worker has returned.                 *)
(***************************************************************************)
\* startDetection: read the calibration file into the arrays, reset the
\* token, spawn the detection thread; the result of the read is not used
StartDetection ==
    LET r == ReadCalibrationData(file, calibrationPhysicalCoords,
                                 calibrationVirtualCoords)
    IN  /\ calibrationPhysicalCoords' = r.phys
        /\ calibrationVirtualCoords' = r.virt
        /\ detectionShouldCancel' = FALSE
        /\ detectionThread' = [NoDetectionThread EXCEPT
                                  !.pc = "start", !.loadRet = r.ret]

\* detectionThread.join() returns
JoinWithoutWaiting == TRUE

DetectionThreadJoinable == detectionThread.pc = "done"

\* The calibration worker slots not running a worker
FreeThreads == {w \in CalibrationThreads : workers[w].pc \in {"none", "exited"}}

\* startCalibration: a new CalibrationFrame is shown and a new worker is
\* created and run; Create() or Run() may fail, and then no worker runs.
\* afterDetection notes, until the worker's first step, that OnCalibrate
\* found the state Detecting
StartCalibration(fromDetecting) ==
    LET w == CHOOSE x \in FreeThreads : \A y \in FreeThreads : x <= y
    IN  /\ calibrationFrame' = NewCalibrationFrame
        /\ calibrationThread' = w
        /\ \E started \in BOOLEAN :
            workers' = [workers EXCEPT ![w] =
                IF started
                THEN [NoWorker EXCEPT !.pc = "start",
                                      !.afterDetection = fromDetecting]
                ELSE NoWorker]

\* stopCalibration: close the calibration frame, state = Paused
StopCalibration ==
    /\ calibrationFrame' =
        [calibrationFrame EXCEPT
            !.open = FALSE, !.closes = @ + 1,
            !.handled = Append(@, Head(pendingEvents))]
    /\ state' = "Paused"

\* case VirtualMonitorState::Calibrating: return;
StoppedWhileCalibrating ==
    /\ state' = "Paused"
    /\ UNCHANGED <<uiPc, detectionShouldCancel, detectionThread,
                   calibrationThread, workers, pendingEvents,
                   calibrationFrame, grid, file, tapsLeft, store, gesture>>

IgnoredWhileCalibrating == UNCHANGED vars

\* OnDetect
OnDetect ==
    /\ Running
    /\ uiPc = "idle"
    /\ \/ /\ state = "Calibrating"
          /\ IgnoredWhileCalibrating
       \/ /\ state = "Detecting"
          /\ detectionShouldCancel' = TRUE
          /\ uiPc' = "joinOnDetect"
          /\ UNCHANGED <<state, detectionThread, calibrationThread, workers,
                         pendingEvents, calibrationFrame, grid, file,
                         tapsLeft, store, gesture>>
       \/ /\ state = "Paused"
          /\ StartDetection
          /\ state' = "Detecting"
          /\ UNCHANGED <<uiPc, calibrationThread, workers, pendingEvents,
                         calibrationFrame, file, tapsLeft, store, gesture>>

\* OnDetect after stopDetection's join: state = Paused
OnDetectResume ==
    /\ Running
    /\ uiPc = "joinOnDetect"
    /\ DetectionThreadJoinable
    /\ detectionThread' =
        IF detectionThread.pc = "done"
        THEN NoDetectionThread ELSE detectionThread
    /\ state' = "Paused"
    /\ uiPc' = "idle"
    /\ UNCHANGED <<detectionShouldCancel, calibrationThread, workers,
                   pendingEvents, calibrationFrame, grid, file, tapsLeft,
                   store, gesture>>

\* OnCalibrate
OnCalibrate ==
    /\ Running
    /\ uiPc = "idle"
    /\ \/ /\ state = "Calibrating"
          /\ IgnoredWhileCalibrating
       \/ /\ state = "Detecting"
          /\ detectionShouldCancel' = TRUE
          /\ uiPc' = "joinOnCalibrate"
          /\ UNCHANGED <<state, detectionThread, calibrationThread, workers,
                         pendingEvents, calibrationFrame, grid, file,
                         tapsLeft, store, gesture>>
       \/ /\ state = "Paused"
          /\ FreeThreads # {}
          /\ state' = "Calibrating"
          /\ StartCalibration(FALSE)
          /\ UNCHANGED <<uiPc, detectionShouldCancel, detectionThread,
                         pendingEvents, grid, file, tapsLeft, store, gesture>>

\* OnCalibrate after stopDetection's join: state = Paused, then the Paused
\* case: state = Calibrating, startCalibration
OnCalibrateResume ==
    /\ Running
    /\ uiPc = "joinOnCalibrate"
    /\ DetectionThreadJoinable
    /\ FreeThreads # {}
    /\ detectionThread' =
        IF detectionThread.pc = "done"
        THEN NoDetectionThread ELSE detectionThread
    /\ state' = "Calibrating"
    /\ StartCalibration(TRUE)
    /\ uiPc' = "idle"
    /\ UNCHANGED <<detectionShouldCancel, pendingEvents, grid, file,
                   tapsLeft, store, gesture>>

\* ~VirtualMonitorFrame: if (this->state == Detecting) stopDetection()
DestructorAlwaysStops == TRUE

DestructorStopsDetection == state = "Detecting"

\* The end of ~VirtualMonitorFrame, lines 102-113: the controls and the
\* arrays are deleted, and the application ends with its frame: its
\* workers end and its pending events are dropped.  state is not assigned
\* and the calibration file stays
FrameDeleted ==
    /\ uiPc' = "destroyed"
    /\ calibrationThread' = 0
    /\ workers' = [w \in CalibrationThreads |-> NoWorker]
    /\ pendingEvents' = <<>>
    /\ calibrationFrame' = NoCalibrationFrame
    /\ calibrationPhysicalCoords' = <<>>
    /\ calibrationVirtualCoords' = <<>>
    /\ tapsLeft' = 0
    /\ UNCHANGED <<state, file, store, gesture>>

\* ~VirtualMonitorFrame up to stopDetection's join, or to its end when the
\* state is not Detecting
Destructor ==
    /\ Running
    /\ uiPc = "idle"
    /\ IF DestructorStopsDetection
       THEN /\ detectionShouldCancel' = TRUE
            /\ uiPc' = "joinOnDestroy"
            /\ UNCHANGED <<state, calibrationThread, workers,
                           pendingEvents, calibrationFrame, grid, file,
                           tapsLeft, store, gesture>>
       ELSE /\ FrameDeleted
            /\ UNCHANGED detectionShouldCancel
    /\ UNCHANGED detectionThread

\* ~VirtualMonitorFrame after stopDetection's join: the members are deleted
DestructorResume ==
    /\ Running
    /\ uiPc = "joinOnDestroy"
    /\ DetectionThreadJoinable
    /\ detectionThread' =
        IF detectionThread.pc = "done"
        THEN NoDetectionThread ELSE detectionThread
    /\ FrameDeleted
    /\ UNCHANGED detectionShouldCancel

\* (CALIBRATION_ROWS * CALIBRATION_COLS) - 1: the index whose update event
\* ends the session
LastCalibrationIndexEarly == NumCalibrationPoints - 2

LastCalibrationIndex == NumCalibrationPoints - 1

\* OnCalibrateThreadUpdate for the oldest pending event
OnCalibrateThreadUpdate ==
    /\ Running
    /\ uiPc = "idle"
    /\ pendingEvents # <<>>
    /\ LET calibrationIndex == Head(pendingEvents)
       IN  IF calibrationIndex < LastCalibrationIndex
           THEN /\ calibrationFrame' =
                        DisplayNextCalibrationPoint(
                            [calibrationFrame EXCEPT
                                !.handled = Append(@, calibrationIndex)])
                /\ state' = state
           ELSE StopCalibration
    /\ pendingEvents' = Tail(pendingEvents)
    /\ UNCHANGED <<uiPc, detectionShouldCancel, detectionThread,
                   calibrationThread, workers, grid, file, tapsLeft, store,
                   gesture>>

Next ==
    \/ OnDetect
    \/ OnDetectResume
    \/ OnCalibrate
    \/ OnCalibrateResume
    \/ OnCalibrateThreadUpdate
    \/ Destructor
    \/ DestructorResume
    \/ DetectionStart
    \/ DetectionCheckCancel
    \/ DetectionPoll
    \/ DetectionStop
    \/ \E w \in CalibrationThreads :
        \/ CalibrationStart(w)
        \/ CalibrationPoll(w)
        \/ CalibrationOpenFile(w)
        \/ CalibrationWriteLine(w)
        \/ CalibrationStop(w)

Spec == Init /\ [][Next]_vars

(***************************************************************************)
(* The calibration store on its own: readCalibrationDataFromFile and       *)
(* writeCalibrationDataToFile called directly, on arrays and files drawn   *)
(* from bounded sets.                                                      *)
(***************************************************************************)
\* Physical points: a negative x, a z of six significant digits (999.999)
\* and a z of seven (1234.567)
StorePoints == {Coord3D(-3, 12, 0), Coord3D(640, 480, 999999),
                Coord3D(5, 6, 1234567)}

StoreGrid(a, b) ==
    [phys |-> [i \in Slots |->
                  IF i = 0 THEN a
                  ELSE IF i = NumCalibrationPoints - 1 THEN b
                  ELSE Coord3D(i, 2 * i, 250 * i)],
     virt |-> [i \in Slots |-> VirtualPointOfTarget(i)]]

StoreGrids == {StoreGrid(a, b) : a, b \in StorePoints}

\* k more records after a complete file
RECURSIVE ExtraRecords(_)
ExtraRecords(k) ==
    IF k = 0 THEN <<>>
    ELSE ExtraRecords(k - 1) \o FormatRecord(Coord3D(k, k, 1000 * k), Coord2D(k, k))

\* A record whose third field is not a number
MalformedRecord == <<"4", " ", "5", " ", "x", " ", "1", " ", "1", "\n">>

\* Files: absent; the first k lines of a written file; a written file with
\* extra records; a file with a malformed record after its first k lines
StoreFiles ==
    {NoFile}
    \cup {FileOf(WrittenLines(StoreGrid(a, a).phys, StoreGrid(a, a).virt, k)) :
            a \in StorePoints, k \in 0 .. NumCalibrationPoints}
    \cup {FileOf(WriteCalibrationData(StoreGrid(a, a).phys,
                                      StoreGrid(a, a).virt).text
                 \o ExtraRecords(k)) :
            a \in StorePoints, k \in 1 .. MaxExtraRecords}
    \cup {FileOf(WrittenLines(StoreGrid(a, a).phys, StoreGrid(a, a).virt, k)
                 \o MalformedRecord
                 \o FormatRecord(Coord3D(1, 1, 1000), Coord2D(1, 1))) :
            a \in StorePoints, k \in {0, NumCalibrationPoints - 1}}

StoreInit ==
    /\ FrameConstructed
    /\ \E g \in StoreGrids :
        /\ calibrationPhysicalCoords = g.phys
        /\ calibrationVirtualCoords = g.virt
    /\ file \in StoreFiles

\* readCalibrationDataFromFile(calibrationPhysicalCoords,
\* calibrationVirtualCoords, CALIBRATION_DATA_FILENAME).  A store at an
\* index past the arrays goes through a pointer read out of bounds: it
\* either faults, and the process ends, or lands outside the arrays
StoreRead ==
    /\ store.op # "fault"
    /\ LET r == ReadCalibrationData(file, calibrationPhysicalCoords,
                                    calibrationVirtualCoords)
       IN  /\ calibrationPhysicalCoords' = r.phys
           /\ calibrationVirtualCoords' = r.virt
           /\ \E faults \in BOOLEAN :
               /\ faults => r.overrun > 0
               /\ store' = [op |-> IF faults THEN "fault" ELSE "read",
                            ret |-> r.ret, count |-> r.count,
                            overrun |-> r.overrun,
                            phys |-> calibrationPhysicalCoords,
                            virt |-> calibrationVirtualCoords,
                            afterWrite |->
                                store.op = "write" /\ store.ret = 0]
    /\ UNCHANGED <<state, uiPc, detectionShouldCancel, detectionThread,
                   calibrationThread, workers, pendingEvents,
                   calibrationFrame, file, tapsLeft, gesture>>

\* writeCalibrationDataToFile(calibrationPhysicalCoords,
\* calibrationVirtualCoords, CALIBRATION_DATA_FILENAME); the file may fail
\* to open
StoreWrite ==
    /\ store.op # "fault"
    /\ \E ok \in BOOLEAN :
        /\ file' = IF ok THEN WriteCalibrationData(calibrationPhysicalCoords,
                                                   calibrationVirtualCoords)
                   ELSE file
        /\ store' = [op |-> "write", ret |-> IF ok THEN 0 ELSE -1,
                     count |-> 0, overrun |-> 0,
                     phys |-> calibrationPhysicalCoords,
                     virt |-> calibrationVirtualCoords,
                     afterWrite |-> FALSE]
    /\ UNCHANGED <<state, uiPc, detectionShouldCancel, detectionThread,
                   calibrationThread, workers, pendingEvents,
                   calibrationFrame, grid, tapsLeft, gesture>>

StoreNext == StoreRead \/ StoreWrite

SpecStore == StoreInit /\ [][StoreNext]_vars

(***************************************************************************)
(* The gesture state machine on its own: one handler fed a scripted        *)
(* sequence of samples.                                                    *)
(***************************************************************************)
\* Samples fed to the handler
MaxSamples == 5

\* p1, a point within the movement threshold of p1, and p2
GesturePoints ==
    {Coord3D(10, 10, 1000), Coord3D(11, 10, 1000), Coord3D(40, 30, 1000)}

GestureSamples ==
    {NullInteraction} \cup
    {Interaction(c, p) : c \in BOOLEAN, p \in GesturePoints}

GestureInit ==
    /\ FrameConstructed
    /\ ArraysConstructed
    /\ file = NoFile

\* handler->handleInteraction(interaction) on the next scripted sample
GestureFeed ==
    /\ gesture.samples < MaxSamples
    /\ \E s \in GestureSamples :
        LET g == GestureStep(gesture, s)
        IN  gesture' =
                [interacting |-> g.interacting,
                 location |-> g.location,
                 events |-> IF g.event = "None" THEN gesture.events
                            ELSE Append(gesture.events,
                                        [type |-> g.event,
                                         location |-> g.location]),
                 samples |-> gesture.samples + 1,
                 completions |-> gesture.completions
                                    + (IF g.complete THEN 1 ELSE 0),
                 ret |-> g.complete,
                 wasInteracting |-> gesture.interacting,
                 contact |-> IsContact(s)]
    /\ UNCHANGED <<state, uiPc, detectionShouldCancel, detectionThread,
                   calibrationThread, workers, pendingEvents,
                   calibrationFrame, grid, file, tapsLeft, store>>

GestureNext == GestureFeed

SpecGesture == GestureInit /\ [][GestureNext]_vars

(***************************************************************************)
(* Properties                                                              *)
(***************************************************************************)
AliveCalibrationThreads == {w \in CalibrationThreads : CalibrationAlive(w)}

\* C1: at most one session worker is alive: the detection worker and a
\* calibration worker never run at the same time, nor do two calibration
\* workers (the calibration worker's steps after its last update event
\* included)
C1_AtMostOneWorkerAlive ==
    Cardinality(AliveCalibrationThreads)
        + (IF DetectionAlive THEN 1 ELSE 0) <= 1

\* C2: when OnCalibrate is handled in state Detecting, the state becomes
\* Calibrating only after the detection worker was signalled to cancel and
\* has returned with its detector stopped or never opened, and is joined;
\* no calibration worker is created while a detection worker is alive, and
\* none is alive while the state is Calibrating
C2_DetectionJoinedBeforeCalibration ==
    [][ /\ (state = "Detecting" /\ state' = "Calibrating")
            => /\ detectionShouldCancel
               /\ detectionThread.pc = "done"
               /\ ~detectionThread.opened
               /\ detectionThread'.pc = "none"
        /\ \A w \in CalibrationThreads :
            (~CalibrationAlive(w) /\ CalibrationAlive(w)')
                => (~DetectionAlive /\ ~DetectionAlive')
        /\ (state' = "Calibrating") => ~DetectionAlive' ]_vars

\* C2 witness: a calibration worker created by an OnCalibrate that found
\* the state Detecting, before its first step
C2_Witness ==
    \E w \in CalibrationThreads :
        /\ workers[w].pc = "start"
        /\ workers[w].afterDetection
        /\ state = "Calibrating"
        /\ detectionThread.pc = "none"

\* C3: when stopDetection's join is about to return, the worker has made at
\* most one poll since the cancellation flag was set and the detector's
\* stop() has been called exactly once in this session
C3_OnePollThenStopOnce ==
    (uiPc # "idle" /\ detectionThread.pc = "done")
        => (detectionThread.pollsAfterCancel <= 1 /\ detectionThread.stops = 1)

\* C4: if the calibration file could not be loaded, or the detector failed
\* to open, no detection thread is left spawned and the state is not
\* Detecting
C4_StartDetectionFailsFast ==
    /\ (detectionThread.loadRet < 0)
        => (detectionThread.pc = "none" /\ state # "Detecting")
    /\ (detectionThread.pc = "done" /\ detectionThread.stops = 0)
        => state # "Detecting"

\* C5: while a calibration session runs, every grid slot its worker has
\* recorded holds the virtual coordinate of the target of the same index
C5_SlotHoldsItsTarget ==
    (state = "Calibrating" /\ calibrationThread # 0)
        => \A i \in Slots :
            i < workers[calibrationThread].calibrationIndex
                => calibrationVirtualCoords[i] = VirtualPointOfTarget(i)

\* C6: a calibration worker writes one slot per completed tap, slots
\* 0, 1, 2, ... in this order and each once; it leaves the loop after
\* exactly NumCalibrationPoints completed taps, and calls
\* writeCalibrationDataToFile once after the loop and never before
C6_SlotsOnceInOrderThenOneSave ==
    \A w \in CalibrationThreads :
        LET wk == workers[w]
        IN  /\ wk.slotLog = [k \in 1 .. wk.taps |-> k - 1]
            /\ wk.taps <= NumCalibrationPoints
            /\ wk.pc \in {"start", "loop"} => wk.saves = 0
            /\ (wk.pc \in {"write", "stop"} \/ (wk.pc = "exited" /\ ~wk.startFailed))
                => (wk.taps = NumCalibrationPoints /\ wk.saves = 1)

\* C6 witness: a worker that has exited after a complete session
C6_Witness ==
    \E w \in CalibrationThreads :
        /\ workers[w].pc = "exited"
        /\ workers[w].taps = NumCalibrationPoints
        /\ Len(workers[w].slotLog) = NumCalibrationPoints
        /\ workers[w].saves = 1

\* C7: once the caller has seen completion (the state has left Calibrating
\* after the worker recorded all targets), the worker has written the file
\* and stopped its detector
C7_CompletionAfterSaveAndStop ==
    (state # "Calibrating" /\ calibrationThread # 0
        /\ workers[calibrationThread].taps = NumCalibrationPoints)
        => /\ workers[calibrationThread].saves = 1
           /\ workers[calibrationThread].pc = "exited"
           /\ ~workers[calibrationThread].opened

\* C8: a load that read fewer than NumCalibrationPoints records returned an
\* error and left every slot of the arrays as it was
C8_LoadAllOrNothing ==
    (store.op = "read" /\ store.count < NumCalibrationPoints)
        => /\ store.ret < 0
           /\ calibrationPhysicalCoords = store.phys
           /\ calibrationVirtualCoords = store.virt

\* C9: a read that follows a successful write of the arrays leaves in every
\* slot the physical (x, y, z) and virtual (x, y) that were written
C9_RoundTrip ==
    (store.op = "read" /\ store.afterWrite)
        => /\ calibrationPhysicalCoords = store.phys
           /\ calibrationVirtualCoords = store.virt

\* C10: a calibration worker whose detector failed to start has exited
\* without a poll, a slot written, an update event posted or a call of
\* writeCalibrationDataToFile
C10_StartFailureAborts ==
    \A w \in CalibrationThreads :
        workers[w].startFailed
            => /\ workers[w].pc = "exited"
               /\ ~workers[w].polled
               /\ ~workers[w].opened
               /\ workers[w].taps = 0
               /\ workers[w].slotLog = <<>>
               /\ workers[w].posted = 0
               /\ workers[w].saves = 0

\* C10 witness: a worker whose detector failed to start, while its session
\* is the current one
C10_Witness ==
    \E w \in CalibrationThreads :
        /\ workers[w].startFailed
        /\ calibrationThread = w
        /\ state = "Calibrating"

\* C11: a calibration session never sits in state Calibrating with no worker
\* running and no update event on its way: a failed thread creation or a
\* failed detector start has been notified, so that the state can leave
\* Calibrating
C11_FailureLeavesCalibrating ==
    state = "Calibrating"
        => \/ CalibrationAlive(calibrationThread)
           \/ pendingEvents # <<>>

\* A calibration worker that can still write a grid slot: it has not left
\* its loop
CanStillWrite(w) ==
    workers[w].pc = "start" \/ InCalibrationLoop(workers[w])

EndEvents(ev) == {k \in 1 .. Len(ev) : ev[k].type = "End"}

\* Unmatched Start events after ev: 1 when the handler is Pressing, 0 when
\* Idle, and -1 when ev has an End or a Move with no unmatched Start before
\* it, or a Start while Pressing
RECURSIVE UnmatchedStarts(_)
UnmatchedStarts(ev) ==
    IF ev = <<>> THEN 0
    ELSE LET before == UnmatchedStarts(SubSeq(ev, 1, Len(ev) - 1))
             e == ev[Len(ev)].type
         IN  IF before = -1 THEN -1
             ELSE IF e = "Start" THEN (IF before = 0 THEN 1 ELSE -1)
             ELSE IF e = "Move" THEN (IF before = 1 THEN 1 ELSE -1)
             ELSE (IF before = 1 THEN 0 ELSE -1)

\* C13: for every sequence of samples fed to handleInteraction, every End
\* follows an unmatched Start, handleInteraction returned true exactly when
\* the sample was a no-contact received while Pressing, it has returned true
\* once per End event and never on a Start or a Move, and after a contact
\* sample the handler is Pressing with no End and no completion
C13_TapCompletesOncePerCycle ==
    LET ev == gesture.events
    IN  /\ UnmatchedStarts(ev) = (IF gesture.interacting THEN 1 ELSE 0)
        /\ gesture.completions = Cardinality(EndEvents(ev))
        /\ gesture.ret <=> (gesture.wasInteracting /\ ~gesture.contact)
        /\ gesture.ret => (ev # <<>> /\ ev[Len(ev)].type = "End")
        /\ gesture.contact
            => /\ ~gesture.ret
               /\ gesture.interacting
               /\ ev # <<>> /\ ev[Len(ev)].type # "End"

\* C13 witness: [absent, present(p1), present(p1), present(p2), absent] has
\* yielded [Start(p1), Move(p2), End(p2)] and one tap completion, on the
\* last sample
C13_Witness ==
    /\ gesture.samples = 5
    /\ gesture.events =
        << [type |-> "Start", location |-> Coord3D(10, 10, 1000)],
           [type |-> "Move", location |-> Coord3D(40, 30, 1000)],
           [type |-> "End", location |-> Coord3D(40, 30, 1000)] >>
    /\ gesture.completions = 1
    /\ gesture.ret

\* C14: no calibration worker has read the physical location of a NULL
\* sample: every tap completion was on a sample that is present, and the
\* point put into the slot is the point of that sample
C14_NoReadOfNullSample ==
    \A w \in CalibrationThreads :
        /\ workers[w].nullReads = 0
        /\ workers[w].pc # "crashed"

\* A calibration worker that has reported its last target and has not yet
\* left writeCalibrationDataToFile
SavePending(w) ==
    /\ workers[w].taps = NumCalibrationPoints
    /\ workers[w].pc \in {"loop", "write"}

\* C15: startDetection loads the calibration file only when no calibration
\* worker that has reported its last target is still to write it or is
\* writing it
C15_LoadAfterSave ==
    [][ (detectionThread.pc = "none" /\ detectionThread'.pc = "start")
            => \A w \in CalibrationThreads : ~SavePending(w) ]_vars

\* C16: whatever the file holds, readCalibrationDataFromFile has stored no
\* record at a slot index of NumCalibrationPoints or more
C16_ReaderIndexInBounds ==
    store.op \in {"read", "fault"} => store.overrun = 0

\* std::thread::joinable() of detectionThread: started and not yet joined
ThreadJoinable == detectionThread.pc # "none"

\* The UI thread is inside stopDetection, at detectionThread.join()
InStopDetection == uiPc \in {"joinOnDetect", "joinOnCalibrate", "joinOnDestroy"}

\* The handlers' view of the detection thread, in one state
DetectingIffJoinable ==
    /\ uiPc # "destroyed" => (state = "Detecting" <=> ThreadJoinable)
    /\ InStopDetection => ThreadJoinable

\* C17: while the frame exists, the state is Detecting exactly when the
\* detection thread object is joinable; startDetection assigns the thread
\* object only when it is not joinable, and stopDetection, called from
\* OnDetect, OnCalibrate or the destructor, joins only a joinable thread
C17_DetectingIffJoinable ==
    [][ /\ DetectingIffJoinable
        /\ DetectingIffJoinable'
        /\ (detectionThread'.pc = "start" /\ detectionThread.pc # "start")
            => ~ThreadJoinable
        /\ (InStopDetection /\ ~InStopDetection')
            => (ThreadJoinable /\ ~ThreadJoinable') ]_vars

\* C17 witness: the destructor, called in state Detecting, is about to join
\* a detection thread that has returned
C17_Witness ==
    /\ uiPc = "joinOnDestroy"
    /\ state = "Detecting"
    /\ detectionThread.pc = "done"

\* C18: a step of OnDetect or OnCalibrate taken in state Calibrating leaves
\* the state, the cancel flag, both workers, the grid and the displayed
\* target as they are, and a step that takes the state out of Calibrating is
\* the handling of the update event of the last target index
C18_NoOpsWhileCalibrating ==
    [][ /\ (state = "Calibrating" /\ uiPc = "idle" /\ (OnDetect \/ OnCalibrate))
            => UNCHANGED <<state, detectionShouldCancel, detectionThread,
                           calibrationThread, workers, grid,
                           calibrationFrame>>
        /\ (state = "Calibrating" /\ state' # "Calibrating")
            => /\ pendingEvents # <<>>
               /\ Head(pendingEvents) = LastCalibrationIndex
               /\ pendingEvents' = Tail(pendingEvents)
               /\ state' = "Paused" ]_vars

\* C18 witness: a session in progress, in which the buttons are ignored:
\* the worker has recorded some targets and not all
C18_Witness ==
    /\ state = "Calibrating"
    /\ uiPc = "idle"
    /\ calibrationThread # 0
    /\ workers[calibrationThread].pc = "loop"
    /\ workers[calibrationThread].taps = 3
    /\ ENABLED OnDetect
    /\ ENABLED OnCalibrate

\* C19: over a calibration session, the update events the UI thread has
\* handled are those of indices 0, 1, 2, ... in this order;
\* displayNextCalibrationPoint has been called once for each handled index
\* below the last and stopCalibration once, for the last index; the state
\* is Calibrating until that last event is handled and not after
C19_UpdatesInOrderThenOneStop ==
    calibrationThread # 0 =>
        LET f == calibrationFrame
            n == Len(f.handled)
        IN  /\ f.handled = [k \in 1 .. n |-> k - 1]
            /\ n <= NumCalibrationPoints
            /\ f.current = (IF n < NumCalibrationPoints
                            THEN n ELSE NumCalibrationPoints - 1)
            /\ f.closes = (IF n = NumCalibrationPoints THEN 1 ELSE 0)
            /\ n < NumCalibrationPoints <=> state = "Calibrating"
            /\ n < NumCalibrationPoints <=> f.open

\* C19 witness: a session that ran to completion: all update events
\* handled, the last one by stopCalibration
C19_Witness ==
    /\ calibrationThread # 0
    /\ workers[calibrationThread].taps = NumCalibrationPoints
    /\ Len(calibrationFrame.handled) = NumCalibrationPoints
    /\ calibrationFrame.current = NumCalibrationPoints - 1
    /\ calibrationFrame.closes = 1
    /\ state = "Paused"

====
